---- MODULE Spec2Model ----
(***************************************************************************)
(* Model of benchmark.py: a benchmark harness that runs a fixed catalog   *)
(* of eight database operations.  For each catalog entry run_benchmark    *)
(* calls benchmark_worker, which drops and recreates the schema, reads    *)
(* the clock, calls the entry's function and returns the elapsed time.    *)
(* Six of the functions dispatch NumRuns invocations of a closure `func`  *)
(* on a ThreadPoolExecutor with MaxWorkers threads; each invocation       *)
(* borrows a connection from a pool of bounded size.  print_results then  *)
(* fills in the slowness ratios and prints the table.                     *)
(***************************************************************************)
EXTENDS Integers, Sequences, FiniteSets, TLC

(***************************************************************************)
(* Bounds.  The program's sizes are scaled down; every bound keeps the    *)
(* order relations of the program (NumRuns > MaxWorkers > PoolSize).      *)
(***************************************************************************)
\* range(100_000): invocations submitted per concurrent entry
NumRuns == 3
\* ThreadPoolExecutor(max_workers=1000)
MaxWorkers == 2
\* create_engine(pool_size=25), ConnectionPool(max_size=25)
PoolSize == 1
\* the engine's QueuePool lends max_overflow connections beyond pool_size
MaxOverflow == 1
\* generate_series(1,1000000): rows seeded by the select and update entries
NumSeed == 2
\* most clock ticks one timed call takes (perf_counter() - start)
MaxElapsed == 2
\* print_results taken alone: length of the list and largest duration drawn
MaxLen == 4
MaxDuration == 8

(***************************************************************************)
(* The catalog of run_benchmark, in source order.                         *)
(***************************************************************************)
Entry(n, f) == [name |-> n, func |-> f, duration |-> 0, slowness |-> "0"]

Catalog ==
    << Entry("Psycopg Concurrent Select", "run_psycopg_select"),
       Entry("SQLAlchemy Concurrent Select", "run_sqlalchemy_select"),
       Entry("Psycopg Concurrent update", "run_psycopg_update"),
       Entry("SQLAlchemy Concurrent update", "run_sqlalchemy_update"),
       Entry("Psycopg Batch Add", "psycopg_executemany"),
       Entry("SQLAlchemy Batch Add", "run_sqlalchemy_add_all"),
       Entry("Psycopg Concurrent Add", "psycopg_concurrent_add"),
       Entry("SQLAlchemy Concurrent Add", "run_sqlalchemy_concurrent_add") >>

NumEntries == Len(Catalog)

\* functions that run populate_stmt before dispatching
Seeds(f) == f \in {"run_psycopg_select", "run_sqlalchemy_select",
                   "run_psycopg_update", "run_sqlalchemy_update"}

\* functions that dispatch `func` on a ThreadPoolExecutor
Concurrent(f) == f \notin {"psycopg_executemany", "run_sqlalchemy_add_all"}

\* functions whose work borrows from PG_POOLER (the others use SESSIONMAKER)
UsesPg(f) == f \in {"run_psycopg_select", "run_psycopg_update",
                    "psycopg_executemany", "psycopg_concurrent_add"}

\* capacity of the two pools
PgCap == PoolSize
EngineCap == PoolSize + MaxOverflow

NoReading == -1
NoError == [kind |-> "none", entry |-> -1]

VARIABLES
    pc,          \* position of the main thread in run_benchmark
    idx,         \* 0-based index of the catalog entry of the for loop
    functions,   \* the list of dicts of run_benchmark
    clock,       \* perf_counter()
    start,       \* benchmark_worker's `start`, NoReading outside the bracket
    raised,      \* the exception propagating in the main thread, if any
    printed,     \* rows handed to tabulate and print; <<>> before the print
    tableExists, \* bench_storage exists
    rows,        \* ids of the rows of bench_storage
    seq,         \* last value of the id sequence of bench_storage
    pgOut,       \* connections checked out of PG_POOLER
    engineOut,   \* connections checked out of the engine's pool
    futures,     \* the list `futures` of the running function, by invocation
    numThreads,  \* worker threads of the executor
    idleSem,     \* the executor's idle semaphore
    outcome,     \* history: how each invocation of the entry's batch ended
    runs,        \* history: times each invocation of the entry's batch began
                 \* (both are cleared when the for loop leaves the entry)
    resets,      \* history: schema resets completed, per entry
    calls,       \* history: calls of function(), per entry
    log          \* history: name and elapsed time of each timed call, in order

vars == << pc, idx, functions, clock, start, raised, printed, tableExists,
           rows, seq, pgOut, engineOut, futures, numThreads, idleSem,
           outcome, runs, resets, calls, log >>

runnerVars == << pc, idx, functions, clock, start, raised, printed >>
storeVars == << tableExists, rows, seq >>
poolVars == << pgOut, engineOut >>
execVars == << futures, numThreads, idleSem >>
batchHist == << outcome, runs >>
entryHist == << resets, calls, log >>

Invocations == 1 .. NumRuns
NoOutcome == [i \in Invocations |-> "none"]
NoRuns == [i \in Invocations |-> 0]
NoFutures == [i \in Invocations |-> "new"]

\* the entry of the for loop
Cur == functions[idx + 1]

Init ==
    /\ pc = "Idle"
    /\ idx = 0
    /\ functions = Catalog
    /\ clock = 0
    /\ start = NoReading
    /\ raised = NoError
    /\ printed = << >>
    /\ \/ tableExists = FALSE /\ rows = {} /\ seq = 0
       \/ tableExists = TRUE /\ rows = 1 .. NumSeed /\ seq = NumSeed
    /\ pgOut = 0
    /\ engineOut = 0
    /\ futures = NoFutures
    /\ numThreads = 0
    /\ idleSem = 0
    /\ outcome = NoOutcome
    /\ runs = NoRuns
    /\ resets = [e \in 1 .. NumEntries |-> 0]
    /\ calls = [e \in 1 .. NumEntries |-> 0]
    /\ log = << >>

(***************************************************************************)
(* run_benchmark and benchmark_worker: the main thread.                   *)
(***************************************************************************)

\* faulty variant, for comparison: the loop catches the exception and goes
\* on to the next entry
RaiseSwallowed(kind) ==
    /\ raised' = [kind |-> kind, entry |-> idx]
    /\ start' = NoReading
    /\ pc' = "Recording"
    /\ UNCHANGED << idx, functions, clock, printed >>

\* An exception nothing catches: it unwinds benchmark_worker and
\* run_benchmark, and the process ends without reaching print_results.
Raise(kind) ==
    /\ raised' = [kind |-> kind, entry |-> idx]
    /\ start' = NoReading
    /\ pc' = "Aborted"
    /\ UNCHANGED << idx, functions, clock, printed >>

\* first iteration of `for func in functions`
EnterLoop ==
    /\ pc = "Idle"
    /\ pc' = "drop_all"
    /\ UNCHANGED << idx, functions, clock, start, raised, printed >>
    /\ UNCHANGED << storeVars, poolVars, execVars, batchHist, entryHist >>

\* a later iteration of `for func in functions`
NextEntry ==
    /\ pc = "Recording"
    /\ idx + 1 < NumEntries
    /\ idx' = idx + 1
    /\ pc' = "drop_all"
    /\ outcome' = NoOutcome
    /\ runs' = NoRuns
    /\ UNCHANGED << functions, clock, start, raised, printed >>
    /\ UNCHANGED << storeVars, poolVars, execVars, entryHist >>

\* the for loop is exhausted: print_results(functions) is called
LoopEnd ==
    /\ pc = "Recording"
    /\ idx + 1 = NumEntries
    /\ pc' = "print"
    /\ outcome' = NoOutcome
    /\ runs' = NoRuns
    /\ UNCHANGED << idx, functions, clock, start, raised, printed >>
    /\ UNCHANGED << storeVars, poolVars, execVars, entryHist >>

\* faulty variant, for comparison: drop_all leaves the table of the
\* previous entry in place
DropAllSkipped ==
    /\ pc = "drop_all"
    /\ pc' = "create_all"
    /\ UNCHANGED << idx, functions, clock, start, raised, printed >>
    /\ UNCHANGED << storeVars, poolVars, execVars, batchHist, entryHist >>

\* faulty variant, for comparison: the table goes, its id sequence stays
DropAllKeepsSequence ==
    /\ pc = "drop_all"
    /\ tableExists' = FALSE
    /\ rows' = {}
    /\ pc' = "create_all"
    /\ UNCHANGED << idx, functions, clock, start, raised, printed >>
    /\ UNCHANGED << seq, poolVars, execVars, batchHist, entryHist >>

\* ORMBase.metadata.drop_all(engine)
DropAll ==
    /\ pc = "drop_all"
    /\ tableExists' = FALSE
    /\ rows' = {}
    /\ seq' = 0
    /\ pc' = "create_all"
    /\ UNCHANGED << idx, functions, clock, start, raised, printed >>
    /\ UNCHANGED << poolVars, execVars, batchHist, entryHist >>

\* drop_all raises (the store is unreachable)
DropAllFails ==
    /\ pc = "drop_all"
    /\ Raise("reset")
    /\ UNCHANGED << storeVars, poolVars, execVars, batchHist, entryHist >>

\* ORMBase.metadata.create_all(engine)
CreateAll ==
    /\ pc = "create_all"
    /\ tableExists' = TRUE
    /\ resets' = [resets EXCEPT ![idx + 1] = @ + 1]
    /\ pc' = "start"
    /\ UNCHANGED << idx, functions, clock, start, raised, printed >>
    /\ UNCHANGED << rows, seq, poolVars, execVars, batchHist, calls, log >>

\* faulty variant, for comparison: a failure of create_all is ignored and
\* the entry is executed
CreateAllFailsIgnored ==
    /\ pc = "create_all"
    /\ pc' = "start"
    /\ UNCHANGED << idx, functions, clock, start, raised, printed >>
    /\ UNCHANGED << storeVars, poolVars, execVars, batchHist, entryHist >>

\* create_all raises
CreateAllFails ==
    /\ pc = "create_all"
    /\ Raise("reset")
    /\ UNCHANGED << storeVars, poolVars, execVars, batchHist, entryHist >>

\* where function() begins, by the function of the entry
FirstStep(f) ==
    IF Seeds(f) THEN "populate"
    ELSE IF Concurrent(f) THEN "dispatch"
    ELSE "batch"

\* start = perf_counter(); function() is entered
TimerStart ==
    /\ pc = "start"
    /\ start' = clock
    /\ calls' = [calls EXCEPT ![idx + 1] = @ + 1]
    /\ pc' = FirstStep(Cur.func)
    /\ UNCHANGED << idx, functions, clock, raised, printed >>
    /\ UNCHANGED << storeVars, poolVars, execVars, batchHist, resets, log >>

\* ticks of the clock while function() ran: the fewest or the most
Elapsed == {1, MaxElapsed}

\* time = perf_counter() - start; func["duration"] = time
TimerStop ==
    /\ pc = "stop"
    /\ \E e \in Elapsed :
          /\ clock' = clock + e
          /\ functions' = [functions EXCEPT ![idx + 1].duration = clock' - start]
          /\ log' = Append(log, << Cur.name, e >>)
    /\ start' = NoReading
    /\ pc' = "Recording"
    /\ UNCHANGED << idx, raised, printed >>
    /\ UNCHANGED << storeVars, poolVars, execVars, batchHist, resets, calls >>

\* faulty variant, for comparison: the session is closed without commit,
\* the inserted rows are rolled back and their ids are spent
PopulateUncommitted ==
    /\ pc = "populate"
    /\ tableExists
    /\ engineOut < EngineCap
    /\ seq' = seq + NumSeed
    /\ pc' = "dispatch"
    /\ UNCHANGED << idx, functions, clock, start, raised, printed >>
    /\ UNCHANGED << tableExists, rows, poolVars, execVars >>
    /\ UNCHANGED << batchHist, entryHist >>

\* populate_stmt: with SESSIONMAKER() as s: s.execute(...); s.commit()
Populate ==
    /\ pc = "populate"
    /\ tableExists
    /\ engineOut < EngineCap
    /\ rows' = rows \cup (seq + 1 .. seq + NumSeed)
    /\ seq' = seq + NumSeed
    /\ pc' = "dispatch"
    /\ UNCHANGED << idx, functions, clock, start, raised, printed >>
    /\ UNCHANGED << tableExists, poolVars, execVars, batchHist, entryHist >>

\* the population raises
PopulateFails ==
    /\ pc = "populate"
    /\ Raise("populate")
    /\ UNCHANGED << storeVars, poolVars, execVars, batchHist, entryHist >>

\* psycopg_executemany, run_sqlalchemy_add_all: one connection, one commit
BatchAdd ==
    /\ pc = "batch"
    /\ tableExists
    /\ IF UsesPg(Cur.func) THEN pgOut < PgCap ELSE engineOut < EngineCap
    /\ rows' = rows \cup (seq + 1 .. seq + NumRuns)
    /\ seq' = seq + NumRuns
    /\ pc' = "stop"
    /\ UNCHANGED << idx, functions, clock, start, raised, printed >>
    /\ UNCHANGED << tableExists, poolVars, execVars, batchHist, entryHist >>

\* the batch insert raises
BatchAddFails ==
    /\ pc = "batch"
    /\ Raise("batch")
    /\ UNCHANGED << storeVars, poolVars, execVars, batchHist, entryHist >>

(***************************************************************************)
(* with ThreadPoolExecutor(max_workers=...) as tpe:                       *)
(*     futures = [tpe.submit(func) for i in range(...)]                   *)
(* The queue of the executor is first in, first out, so the queued        *)
(* invocations are the latest submitted ones that no thread has taken.    *)
(***************************************************************************)

\* invocations a worker thread is running
Busy == {i \in Invocations : futures[i] \in {"running", "conn"}}

Queued == {i \in Invocations : futures[i] = "queued"}

\* faulty variant, for comparison: a thread per submitted item, whatever
\* max_workers says
AdjustThreadCountUnbounded ==
    IF idleSem > 0
    THEN idleSem' = idleSem - 1 /\ numThreads' = numThreads
    ELSE idleSem' = idleSem /\ numThreads' = numThreads + 1

\* the executor of max_workers threads: submit starts a thread unless one
\* is idle or max_workers threads exist
AdjustThreadCount ==
    IF idleSem > 0
    THEN idleSem' = idleSem - 1 /\ numThreads' = numThreads
    ELSE /\ idleSem' = idleSem
         /\ numThreads' = IF numThreads < MaxWorkers
                          THEN numThreads + 1 ELSE numThreads

\* tpe.submit(func), for the next i of range(...): the work item is queued
Submit ==
    /\ pc = "dispatch"
    /\ \E i \in Invocations :
          /\ futures[i] = "new"
          /\ \A j \in Invocations : j < i => futures[j] # "new"
          /\ futures' = [futures EXCEPT ![i] = "queued"]
    /\ AdjustThreadCount
    /\ UNCHANGED << runnerVars, storeVars, poolVars, batchHist, entryHist >>

\* the list is complete; the with block exits into shutdown(wait=True)
ExitWith ==
    /\ pc = "dispatch"
    /\ \A i \in Invocations : futures[i] # "new"
    /\ pc' = "join"
    /\ UNCHANGED << idx, functions, clock, start, raised, printed >>
    /\ UNCHANGED << storeVars, poolVars, execVars, batchHist, entryHist >>

\* faulty variant, for comparison: a free worker thread takes any queued
\* work item, not the oldest
StartWorkAnyOrder(i) ==
    /\ futures[i] = "queued"
    /\ Cardinality(Busy) < numThreads
    /\ futures' = [futures EXCEPT ![i] = "running"]
    /\ runs' = [runs EXCEPT ![i] = @ + 1]
    /\ UNCHANGED << runnerVars, storeVars, poolVars, numThreads, idleSem >>
    /\ UNCHANGED << outcome, entryHist >>

\* a free worker thread takes the head of the queue and calls func()
StartWork(i) ==
    /\ futures[i] = "queued"
    /\ \A j \in Queued : i <= j
    /\ Cardinality(Busy) < numThreads
    /\ futures' = [futures EXCEPT ![i] = "running"]
    /\ runs' = [runs EXCEPT ![i] = @ + 1]
    /\ UNCHANGED << runnerVars, storeVars, poolVars, numThreads, idleSem >>
    /\ UNCHANGED << outcome, entryHist >>

\* faulty variant, for comparison: a checkout that never waits for a free
\* connection
AcquireUnguarded(i) ==
    /\ futures[i] = "running"
    /\ IF UsesPg(Cur.func)
       THEN pgOut' = pgOut + 1 /\ engineOut' = engineOut
       ELSE engineOut' = engineOut + 1 /\ pgOut' = pgOut
    /\ futures' = [futures EXCEPT ![i] = "conn"]
    /\ UNCHANGED << runnerVars, storeVars, numThreads, idleSem >>
    /\ UNCHANGED << batchHist, entryHist >>

\* with PG_POOLER.connection() as conn / with SESSIONMAKER() as session:
\* a connection is checked out of the pool of the entry's library
Acquire(i) ==
    /\ futures[i] = "running"
    /\ IF UsesPg(Cur.func)
       THEN pgOut < PgCap /\ pgOut' = pgOut + 1 /\ engineOut' = engineOut
       ELSE engineOut < EngineCap /\ engineOut' = engineOut + 1 /\ pgOut' = pgOut
    /\ futures' = [futures EXCEPT ![i] = "conn"]
    /\ UNCHANGED << runnerVars, storeVars, numThreads, idleSem >>
    /\ UNCHANGED << batchHist, entryHist >>

\* the pool stays exhausted for its timeout: the checkout raises, with no
\* connection held; the future keeps the exception
AcquireTimeout(i) ==
    /\ futures[i] = "running"
    /\ IF UsesPg(Cur.func) THEN pgOut = PgCap ELSE engineOut = EngineCap
    /\ futures' = [futures EXCEPT ![i] = "err"]
    /\ outcome' = [outcome EXCEPT ![i] = "timeout"]
    /\ idleSem' = idleSem + 1
    /\ UNCHANGED << runnerVars, storeVars, poolVars, numThreads >>
    /\ UNCHANGED << runs, entryHist >>

\* faulty variant, for comparison: the connection is returned at the end
\* of the block only, so an exception leaves it checked out
ReleaseOnSuccessOnly(f, ok) ==
    IF ok
    THEN IF UsesPg(f)
         THEN pgOut' = pgOut - 1 /\ engineOut' = engineOut
         ELSE engineOut' = engineOut - 1 /\ pgOut' = pgOut
    ELSE UNCHANGED << pgOut, engineOut >>

\* leaving the with block of func returns the connection, whether the
\* block ended normally (ok) or by an exception
ReleaseOnExit(f, ok) ==
    IF UsesPg(f)
    THEN pgOut' = pgOut - 1 /\ engineOut' = engineOut
    ELSE engineOut' = engineOut - 1 /\ pgOut' = pgOut

\* whether the statement of func can succeed on the row with id `key`:
\* run_psycopg_update sets LONG_VALUE, a column the table does not have;
\* run_sqlalchemy_update assigns to the row first() returned
CanSucceed(f, key) ==
    /\ tableExists
    /\ f # "run_psycopg_update"
    /\ f = "run_sqlalchemy_update" => key \in rows

\* the rows after func commits: the two add functions insert one row
RowsAfter(f) ==
    IF f \in {"psycopg_concurrent_add", "run_sqlalchemy_concurrent_add"}
    THEN rows \cup {seq + 1} ELSE rows

SeqAfter(f) ==
    IF f \in {"psycopg_concurrent_add", "run_sqlalchemy_concurrent_add"}
    THEN seq + 1 ELSE seq

\* func() executes its statement, commits and returns
Complete(i) ==
    /\ futures[i] = "conn"
    /\ \E key \in 1 .. NumSeed : CanSucceed(Cur.func, key)
    /\ rows' = RowsAfter(Cur.func)
    /\ seq' = SeqAfter(Cur.func)
    /\ ReleaseOnExit(Cur.func, TRUE)
    /\ futures' = [futures EXCEPT ![i] = "ok"]
    /\ outcome' = [outcome EXCEPT ![i] = "ok"]
    /\ idleSem' = idleSem + 1
    /\ UNCHANGED << runnerVars, tableExists, numThreads, runs, entryHist >>

\* func() raises inside its with block; the future keeps the exception
Fail(i) ==
    /\ futures[i] = "conn"
    /\ ReleaseOnExit(Cur.func, FALSE)
    /\ futures' = [futures EXCEPT ![i] = "err"]
    /\ outcome' = [outcome EXCEPT ![i] = "err"]
    /\ idleSem' = idleSem + 1
    /\ UNCHANGED << runnerVars, storeVars, numThreads, runs, entryHist >>

\* faulty variant, for comparison: the function returns without waiting
\* for the threads
JoinNoWait ==
    /\ pc = "join"
    /\ pc' = "stop"
    /\ UNCHANGED << idx, functions, clock, start, raised, printed >>
    /\ UNCHANGED << storeVars, poolVars, execVars, batchHist, entryHist >>

\* faulty variant, for comparison: the function asks each future for its
\* result, which raises the exception the future keeps
JoinReraise ==
    /\ pc = "join"
    /\ \A i \in Invocations : futures[i] \in {"ok", "err"}
    /\ futures' = NoFutures
    /\ numThreads' = 0
    /\ idleSem' = 0
    /\ IF \E i \in Invocations : futures[i] = "err"
       THEN Raise("operation")
       ELSE /\ pc' = "stop"
            /\ UNCHANGED << idx, functions, clock, start, raised, printed >>
    /\ UNCHANGED << storeVars, poolVars, batchHist, entryHist >>

\* shutdown(wait=True) joins the threads, which end when the queue is
\* empty; the function returns and its local list `futures` is dropped
Join ==
    /\ pc = "join"
    /\ \A i \in Invocations : futures[i] \in {"ok", "err"}
    /\ futures' = NoFutures
    /\ numThreads' = 0
    /\ idleSem' = 0
    /\ pc' = "stop"
    /\ UNCHANGED << idx, functions, clock, start, raised, printed >>
    /\ UNCHANGED << storeVars, poolVars, batchHist, entryHist >>

(***************************************************************************)
(* print_results                                                          *)
(***************************************************************************)

\* faulty variant, for comparison: the ratio cut to two decimals instead
\* of rounded
Round2Truncated(a, b) == (100 * a) \div b

\* round(x, 2) of x = a / b, in hundredths: to nearest, ties to even (the
\* quotients that are exact ties are exact floats for b < 40)
Round2(a, b) ==
    LET q == (100 * a) \div b
        r == (100 * a) % b
    IN  IF 2 * r > b \/ (2 * r = b /\ q % 2 = 1) THEN q + 1 ELSE q

\* str() of a float of h hundredths: at least one decimal, no trailing zero
StrFloat(h) ==
    LET whole == ToString(h \div 100)
        frac == h % 100
    IN  IF frac % 10 = 0 THEN whole \o "." \o ToString(frac \div 10)
        ELSE IF frac < 10 THEN whole \o ".0" \o ToString(frac)
        ELSE whole \o "." \o ToString(frac)

\* str(round((method["duration"] / prev), 2)) + "x"
Slowness(duration, prev) == StrFloat(Round2(duration, prev)) \o "x"

\* faulty variant, for comparison: a loop over pairs (idx, idx + 1), which
\* reads past the end of a list of odd length
PassRaisesPairwise(results) ==
    \/ Len(results) % 2 = 1
    \/ \E p \in 1 .. Len(results) :
          (p - 1) % 2 = 1 /\ results[p - 1].duration = 0

\* the for loop of print_results raises: the only statement that can is
\* the division, at an odd idx whose predecessor has duration 0
PassRaises(results) ==
    \E p \in 1 .. Len(results) :
        (p - 1) % 2 = 1 /\ results[p - 1].duration = 0

\* faulty variant, for comparison: += instead of = on the slowness
SlownessPassAccumulating(results) ==
    [p \in 1 .. Len(results) |->
        IF (p - 1) % 2 = 0 THEN results[p]
        ELSE [results[p] EXCEPT
                 !.slowness = @ \o Slowness(results[p].duration,
                                            results[p - 1].duration)]]

\* the for loop of print_results: 0-based idx, even ones skipped
SlownessPass(results) ==
    [p \in 1 .. Len(results) |->
        IF (p - 1) % 2 = 0 THEN results[p]
        ELSE [results[p] EXCEPT
                 !.slowness = Slowness(results[p].duration,
                                       results[p - 1].duration)]]

\* faulty variant, for comparison: the rows in reverse order
TableRowsReversed(results) ==
    [p \in 1 .. Len(results) |->
        << results[Len(results) + 1 - p].name,
           results[Len(results) + 1 - p].duration,
           results[Len(results) + 1 - p].slowness >>]

\* data = [[x["name"], x["duration"], x["slowness"]] for x in results]
TableRows(results) ==
    [p \in 1 .. Len(results) |->
        << results[p].name, results[p].duration, results[p].slowness >>]

\* the entries as the loop leaves them when it raises at the first odd idx
\* with a zero predecessor: those before it are done, the rest untouched
PassInterrupted(results) ==
    LET bad == {p \in 1 .. Len(results) :
                   (p - 1) % 2 = 1 /\ results[p - 1].duration = 0}
    IN  [p \in 1 .. Len(results) |->
            IF \E b \in bad : b <= p THEN results[p]
            ELSE SlownessPass(results)[p]]

PrintResults ==
    /\ pc = "print"
    /\ IF PassRaises(functions)
       THEN /\ functions' = PassInterrupted(functions)
            /\ raised' = [kind |-> "report", entry |-> idx]
            /\ pc' = "Aborted"
            /\ UNCHANGED printed
       ELSE /\ functions' = SlownessPass(functions)
            /\ printed' = TableRows(functions')
            /\ pc' = "Done"
            /\ UNCHANGED raised
    /\ UNCHANGED << idx, clock, start >>
    /\ UNCHANGED << storeVars, poolVars, execVars, batchHist, entryHist >>

\* the for loop of print_results run once more on the same list
SlownessAgain ==
    /\ pc = "Done"
    /\ ~ PassRaises(functions)
    /\ functions' = SlownessPass(functions)
    /\ pc' = "Again"
    /\ UNCHANGED << idx, clock, start, raised, printed >>
    /\ UNCHANGED << storeVars, poolVars, execVars, batchHist, entryHist >>

(***************************************************************************)
(* The program.                                                           *)
(***************************************************************************)
Next ==
    \/ EnterLoop
    \/ NextEntry
    \/ LoopEnd
    \/ DropAll
    \/ DropAllFails
    \/ CreateAll
    \/ CreateAllFails
    \/ TimerStart
    \/ Populate
    \/ PopulateFails
    \/ BatchAdd
    \/ BatchAddFails
    \/ Submit
    \/ ExitWith
    \/ \E i \in Invocations : StartWork(i)
    \/ \E i \in Invocations : Acquire(i)
    \/ \E i \in Invocations : AcquireTimeout(i)
    \/ \E i \in Invocations : Complete(i)
    \/ \E i \in Invocations : Fail(i)
    \/ Join
    \/ TimerStop
    \/ PrintResults

Spec == Init /\ [][Next]_vars

\* the main thread and the worker threads are scheduled as long as one of
\* them can take a step
FairSpec == Spec /\ WF_vars(Next)

(***************************************************************************)
(* print_results taken alone, on any list of measured entries: the first  *)
(* n entries of the catalog with positive durations.                      *)
(***************************************************************************)
Measured(d) ==
    [p \in 1 .. Len(d) |-> [Catalog[p] EXCEPT !.duration = d[p]]]

InitReport ==
    /\ pc = "print"
    /\ idx = 0
    /\ \E n \in 0 .. MaxLen :
          \E d \in [1 .. n -> 1 .. MaxDuration] : functions = Measured(d)
    /\ clock = 0
    /\ start = NoReading
    /\ raised = NoError
    /\ printed = << >>
    /\ tableExists = TRUE
    /\ rows = {}
    /\ seq = 0
    /\ pgOut = 0
    /\ engineOut = 0
    /\ futures = NoFutures
    /\ numThreads = 0
    /\ idleSem = 0
    /\ outcome = NoOutcome
    /\ runs = NoRuns
    /\ resets = [e \in 1 .. NumEntries |-> 0]
    /\ calls = [e \in 1 .. NumEntries |-> 0]
    /\ log = << >>

NextReport ==
    \/ PrintResults
    \/ SlownessAgain

SpecReport == InitReport /\ [][NextReport]_vars

(***************************************************************************)
(* The reset alone, from any state a previous entry or run can leave the  *)
(* store in, and run a second time right after the first.                 *)
(***************************************************************************)

\* the largest id one entry can hand out: a seeding or a batch of adds
MaxStored == NumSeed + NumRuns

InitReset ==
    /\ pc = "drop_all"
    /\ idx \in 0 .. NumEntries - 1
    /\ functions = Catalog
    /\ clock = 0
    /\ start = NoReading
    /\ raised = NoError
    /\ printed = << >>
    /\ \/ tableExists = FALSE /\ rows = {} /\ seq = 0
       \/ /\ tableExists = TRUE
          /\ seq \in 0 .. MaxStored
          /\ rows \in SUBSET (1 .. seq)
    /\ pgOut = 0
    /\ engineOut = 0
    /\ futures = NoFutures
    /\ numThreads = 0
    /\ idleSem = 0
    /\ outcome = NoOutcome
    /\ runs = NoRuns
    /\ resets = [e \in 1 .. NumEntries |-> 0]
    /\ calls = [e \in 1 .. NumEntries |-> 0]
    /\ log = << >>

\* drop_all and create_all once more, right after create_all returned
ResetAgain ==
    /\ pc = "start"
    /\ resets[idx + 1] < 2
    /\ pc' = "drop_all"
    /\ UNCHANGED << idx, functions, clock, start, raised, printed >>
    /\ UNCHANGED << storeVars, poolVars, execVars, batchHist, entryHist >>

NextReset ==
    \/ DropAll
    \/ DropAllFails
    \/ CreateAll
    \/ CreateAllFails
    \/ ResetAgain

SpecReset == InitReset /\ [][NextReset]_vars

(***************************************************************************)
(* Properties.                                                            *)
(***************************************************************************)

\* the entry's function has handed control back to benchmark_worker
Returned == pc \in {"stop", "Recording"}

\* C1: at every instant the number of invocations of a batch that are
\* executing on the executor is at most max_workers.
C1_ConcurrencyBounded == Cardinality(Busy) <= MaxWorkers

\* C1, the case: max_workers invocations execute while another one waits
\* in the executor's queue.
C1_Witness == Cardinality(Busy) = MaxWorkers /\ Queued # {}

\* C2: when a function that dispatches a batch has returned, every
\* submitted invocation has been taken by a worker exactly once and has
\* ended (normally or by an exception); none is queued or executing and
\* no worker thread is left.  No invocation is ever taken twice.
C2_ReturnsAfterAll ==
    /\ \A i \in Invocations : runs[i] <= 1
    /\ (Returned /\ Concurrent(Cur.func)) =>
          /\ \A i \in Invocations : runs[i] = 1 /\ outcome[i] # "none"
          /\ Queued = {} /\ Busy = {}
          /\ numThreads = 0

\* C2, the case: a batch has just returned, with invocations that ended
\* normally and invocations that raised.
C2_Witness ==
    /\ pc = "stop" /\ Concurrent(Cur.func)
    /\ \E i, j \in Invocations : outcome[i] = "ok" /\ outcome[j] = "err"

\* C3: while the batch of an entry holds invocations that raised, no
\* exception reaches the main thread and the run is not aborted; when the
\* batch has returned, every sibling has ended as well, and the entry gets
\* its duration.
C3_FailuresIsolated ==
    (\E i \in Invocations : outcome[i] \in {"err", "timeout"}) =>
        /\ raised = NoError
        /\ pc # "Aborted"
        /\ Returned => \A j \in Invocations : outcome[j] # "none"
        /\ pc = "Recording" => Cur.duration > 0

\* C3, the case: every invocation of a batch raised, and the entry has
\* been recorded all the same.
C3_Witness ==
    /\ pc = "Recording"
    /\ \A i \in Invocations : outcome[i] = "err"
    /\ Cur.duration > 0

\* what the main thread or the report can see of a failure: an exception
\* that reached it, a future it still holds, or a field of the entry
FailureVisible ==
    \/ raised # NoError
    \/ \E i \in Invocations : futures[i] = "err"
    \/ \E e \in 1 .. Len(functions) :
          DOMAIN functions[e] # {"name", "func", "duration", "slowness"}
    \/ \E r \in 1 .. Len(printed) : Len(printed[r]) # 3

\* C4: after a batch in which invocations raised, the state the Runner or
\* the report can observe reflects that failures occurred.
C4_FailuresRecorded ==
    (/\ pc = "Recording"
     /\ \E i \in Invocations : outcome[i] \in {"err", "timeout"})
        => FailureVisible

\* C5: no reset or seeding step happens between the start and the stop
\* reading of the clock: dropping, recreating and populating the table
\* are over before start = perf_counter().
C5_ResetBeforeTimer ==
    pc \in {"drop_all", "create_all", "populate"} => start = NoReading

\* a Measurement without slowness (Python's None)
NoSlowness == "None"

\* s is the quotient a / b to the nearest hundredth, written in decimal
\* with at least one and at most two decimals, followed by "x"
IsRatioString(s, a, b) ==
    \E h \in {(100 * a) \div b, (100 * a) \div b + 1} :
       LET w == h \div 100
           d1 == (h \div 10) % 10
           d2 == h % 10
           diff == IF h * b >= 100 * a THEN h * b - 100 * a ELSE 100 * a - h * b
       IN  /\ 2 * diff <= b
           /\ s = ToString(w) \o "." \o ToString(d1)
                     \o (IF d2 = 0 THEN "" ELSE ToString(d2)) \o "x"

\* the odd-indexed Measurements carry the ratio to their predecessor
OddRatios ==
    \A p \in 1 .. Len(functions) :
        (p - 1) % 2 = 1 =>
            IsRatioString(functions[p].slowness, functions[p].duration,
                          functions[p - 1].duration)

C7_ResetFailureAborts ==
    raised.kind = "reset" =>
        /\ pc = "Aborted"
        /\ ~ ENABLED Next
        /\ idx = raised.entry
        /\ start = NoReading
        /\ calls[idx + 1] = 0
        /\ \A e \in idx + 1 .. NumEntries :
              functions[e].duration = 0 /\ calls[e] = 0
        /\ \A e \in idx + 2 .. NumEntries : resets[e] = 0

\* C7, the case: the reset of an entry after the first has raised, after
\* the entries before it were measured.
C7_Witness ==
    /\ raised.kind = "reset"
    /\ raised.entry = 2
    /\ pc = "Aborted"
    /\ functions[1].duration > 0
    /\ functions[2].duration > 0

\* C8: when the reset of entry i raises, a partial report is printed: the
\* rows of the entries 0..i-1 already measured.
C8_PartialReport ==
    (pc = "Aborted" /\ raised.kind = "reset" /\ raised.entry > 0) =>
        /\ Len(printed) = raised.entry
        /\ \A r \in 1 .. Len(printed) :
              /\ printed[r][1] = functions[r].name
              /\ printed[r][2] = functions[r].duration

\* positions of the main thread inside function()
ExecutingPcs == {"populate", "dispatch", "join", "batch", "stop"}

\* C9: per entry the phases come in the order Resetting, Executing,
\* Recording: function() runs only after the entry's reset completed
\* without error, the duration is recorded only after function() (and its
\* batch) has returned, and the reset of the next entry starts only after
\* the durations of all earlier entries are recorded.
C9_PhaseOrder ==
    /\ pc \in ExecutingPcs =>
          /\ resets[idx + 1] = 1 /\ calls[idx + 1] = 1
          /\ tableExists
          /\ Cur.duration = 0
    /\ pc \in {"dispatch", "join"} => Concurrent(Cur.func)
    /\ pc = "Recording" =>
          /\ resets[idx + 1] = 1 /\ calls[idx + 1] = 1
          /\ Cur.duration > 0
          /\ Busy = {} /\ Queued = {} /\ numThreads = 0
          /\ Concurrent(Cur.func) =>
                \A i \in Invocations : outcome[i] # "none"
    /\ pc \in {"drop_all", "create_all", "start"} =>
          /\ calls[idx + 1] = 0
          /\ Cur.duration = 0
          /\ \A e \in 1 .. idx : functions[e].duration > 0 /\ calls[e] = 1
          /\ \A e \in idx + 2 .. NumEntries : resets[e] = 0

\* C9, the case: the second entry is being reset, after the first one was
\* reset, executed with a batch and recorded.
C9_Witness ==
    /\ pc = "create_all"
    /\ idx = 1
    /\ resets[1] = 1 /\ calls[1] = 1
    /\ functions[1].duration > 0

\* C10: outside a running batch no connection is checked out of either
\* pool: each invocation has returned the connection it borrowed, whether
\* it ended normally or raised.
C10_ConnectionsReleased ==
    /\ pgOut + engineOut = Cardinality({i \in Invocations : futures[i] = "conn"})
    /\ pc \notin {"dispatch", "join"} => pgOut = 0 /\ engineOut = 0

\* C10, the case: a batch has returned in which one invocation raised
\* while holding a connection and another ended normally.
C10_Witness ==
    /\ pc = "stop" /\ Concurrent(Cur.func)
    /\ \E i, j \in Invocations : outcome[i] = "err" /\ outcome[j] = "ok"
    /\ pgOut = 0 /\ engineOut = 0

\* the pool of the running entry has lent every connection it may lend
PoolExhausted ==
    IF UsesPg(Cur.func) THEN pgOut = PgCap ELSE engineOut = EngineCap

C12_ReportOrder ==
    pc = "Done" =>
        /\ Len(printed) = NumEntries
        /\ Len(log) = NumEntries
        /\ \A r \in 1 .. Len(printed) :
              /\ Len(printed[r]) = 3
              /\ printed[r][1] = Catalog[r].name
              /\ printed[r][1] = log[r][1]
              /\ printed[r][2] = log[r][2]
              /\ printed[r][3] = functions[r].slowness

\* C12, the case: a report of entries that took different times.
C12_Witness ==
    /\ pc = "Done"
    /\ Len(printed) = NumEntries
    /\ printed[1][2] # printed[2][2]
    /\ printed[3][2] # printed[1][2]

C14_Idempotent ==
    pc = "Again" => TableRows(functions) = printed

\* C14, the case: the loop has run twice on a list with two pairs.
C14_Witness ==
    /\ pc = "Again"
    /\ Len(functions) = 4
    /\ functions[2].slowness = "0.5x"
    /\ functions[4].slowness = "0.62x"

\* C15: whatever the store held before (no table, an empty table, rows
\* left by an earlier entry), after the reset has run once, and again
\* after it has run a second time in a row, the store is in one and the
\* same state: the table exists, it has no rows, its id sequence is fresh.
C15_ResetIdempotent ==
    (pc = "start" /\ resets[idx + 1] \in {1, 2}) =>
        /\ tableExists
        /\ rows = {}
        /\ seq = 0

\* C15, the case: the reset has run twice in a row before a later entry.
C15_Witness ==
    /\ pc = "start"
    /\ idx = 3
    /\ resets[idx + 1] = 2
    /\ tableExists

\* C16: within a batch the invocations are submitted in index order and
\* handed to the worker threads in that order: when a later-submitted
\* invocation has been submitted, or has started, every earlier one has
\* too. Nothing is said about the order in which they finish.
C16_FifoStart ==
    \A i, j \in Invocations :
        i < j => /\ futures[j] # "new" => futures[i] # "new"
                 /\ runs[j] >= 1 => runs[i] >= 1

\* C16, the case: a later-submitted invocation has finished while an
\* earlier one, started before it, is still executing.
C16_Witness ==
    \E i, j \in Invocations :
        /\ i < j
        /\ futures[j] \in {"ok", "err"}
        /\ futures[i] \in {"running", "conn"}
        /\ runs[i] = 1

\* the invocations of the current batch that committed
Committed == {i \in Invocations : outcome[i] = "ok"}

\* C17: entries do not overlap in the store.  When the reset of an entry
\* starts or is under way, no invocation of an earlier entry is queued or
\* executing, no worker thread is left and no connection is checked out;
\* and while the invocations of an entry execute, the table is the one
\* made by that entry's single reset and holds only that entry's rows:
\* its seed rows, or the rows its own invocations have added so far.
C17_EntriesDisjoint ==
    /\ pc \in {"drop_all", "create_all", "start"} =>
          /\ Busy = {} /\ Queued = {}
          /\ futures = NoFutures
          /\ numThreads = 0
          /\ pgOut = 0 /\ engineOut = 0
    /\ pc \in {"dispatch", "join"} =>
          /\ tableExists
          /\ resets[idx + 1] = 1
          /\ \A e \in idx + 2 .. NumEntries : resets[e] = 0
          /\ IF Seeds(Cur.func)
             THEN rows = 1 .. NumSeed /\ seq = NumSeed
             ELSE rows = 1 .. Cardinality(Committed)
                  /\ seq = Cardinality(Committed)

\* C17, the case: the reset of the last entry starts while the store
\* still holds the rows the invocations of the entry before it added.
C17_Witness ==
    /\ pc = "drop_all"
    /\ idx = NumEntries - 1
    /\ Cardinality(rows) >= 2
    /\ Busy = {} /\ Queued = {}

\* C18: in the select and update entries, from the first submission to
\* the return of the batch, the table holds exactly the seed rows, ids
\* 1 to the seed size: every key an invocation can draw is the id of a
\* row, and the lookup of an executing invocation finds its row.
C18_SeededRows ==
    (pc \in {"dispatch", "join"} /\ Seeds(Cur.func)) =>
        /\ tableExists
        /\ rows = 1 .. NumSeed
        /\ \A key \in 1 .. NumSeed :
              /\ key \in rows
              /\ Cur.func # "run_psycopg_update" =>
                    CanSucceed(Cur.func, key)

\* C18, the case: an update entry whose invocations have committed and
\* failed, with an invocation still executing on the seeded table.
C18_Witness ==
    /\ pc = "join"
    /\ Cur.func = "run_sqlalchemy_update"
    /\ \E i, j, k \in Invocations :
          /\ outcome[i] = "ok"
          /\ outcome[j] = "err"
          /\ futures[k] = "conn"
    /\ rows = 1 .. NumSeed

\* C19: when every reset succeeds and every invocation ends, normally or
\* with an error, the run ends in Done with each entry reset, called and
\* measured exactly once and the report printed once, after the last
\* entry was recorded.  Stated on the runs that can take no further step:
\* unless a reset or its seeding failed, such a run is in Done with every
\* entry reset once and called once and one printed row per entry.
C19_ReachesDone ==
    (~ ENABLED Next /\ raised.kind \notin {"reset", "populate"}) =>
        /\ pc = "Done"
        /\ \A e \in 1 .. NumEntries : resets[e] = 1 /\ calls[e] = 1
        /\ Len(printed) = NumEntries

\* every run ends, in Done or by an exception in the main thread
Terminates == <>(pc \in {"Done", "Aborted"})

====
